---- MODULE Spec2Model ----
(***************************************************************************)
(* HealthScan AI backend: the Firebase credential initializer, the bearer  *)
(* token verifier / identity extractor (backend/auth_utils.py) and the     *)
(* four HTTP routes (backend/main.py), with several requests in flight.    *)
(*                                                                         *)
(* A request is resolved by FastAPI in dependency order                    *)
(*   security (HTTPBearer) -> verify_firebase_token -> get_current_user    *)
(*   -> route handler.                                                     *)
(* security and verify_firebase_token are coroutines without a suspension  *)
(* point and run on the event loop as one step; get_current_user and the   *)
(* handlers are synchronous functions dispatched to the thread pool, one   *)
(* step each.  Steps of different requests interleave freely.              *)
(***************************************************************************)
EXTENDS Naturals, Sequences, FiniteSets, TLC

(* ------------------------------ bounds --------------------------------- *)

\* number of request slots (requests that may be in flight together)
NumRequests == 2

\* the wall clock runs from 0 to MaxClock
MaxClock == 1

Requests == 1..NumRequests

(* --------------------------- values ------------------------------------ *)

\* Python's None (JSON null)
None == "None"

\* an empty dict / no value yet
NoDict == [k \in {} |-> ""]

\* dict.get(key): the value when the key is present, None otherwise
Get(d, key) == IF key \in DOMAIN d THEN d[key] ELSE None

(* --------------------- tokens and the identity provider ---------------- *)

\* The bearer tokens a caller may present.  "garbage" is not a JWT,
\* "forged" is a JWT whose signature does not match, "alice" is a correctly
\* signed token with a full profile that expires at time 1, "bob" is a
\* correctly signed token with no optional claims that does not expire
\* within the modelled time.
Tokens == {"garbage", "forged", "alice", "bob"}

WellFormed(token) == token # "garbage"

SignatureValid(token) == token \in {"alice", "bob"}

Exp(token) == IF token = "alice" THEN 1 ELSE MaxClock + 1

\* the payload (claim set) a token carries
Payload(token) ==
    CASE token = "alice" -> ("sub" :> "alice-uid") @@ ("email" :> "alice@example.org")
                            @@ ("name" :> "Alice") @@ ("picture" :> "https://img/alice.png")
                            @@ ("exp" :> "1")
      [] token = "bob"   -> ("sub" :> "bob-uid") @@ ("exp" :> "never")
      [] token = "forged" -> ("sub" :> "alice-uid") @@ ("email" :> "mallory@example.org")
      [] OTHER -> NoDict

\* Python exception classes that verification can raise, each with its
\* superclasses (itself included)
Superclasses(cls) ==
    CASE cls = "ValueError" -> {"ValueError", "Exception", "BaseException"}
      [] cls = "InvalidIdTokenError" ->
            {"InvalidIdTokenError", "FirebaseError", "Exception", "BaseException"}
      [] cls = "ExpiredIdTokenError" ->
            {"ExpiredIdTokenError", "InvalidIdTokenError", "FirebaseError",
             "Exception", "BaseException"}
      [] cls = "CertificateFetchError" ->
            {"CertificateFetchError", "FirebaseError", "Exception", "BaseException"}
      [] OTHER -> {cls}

IsInstance(cls, base) == base \in Superclasses(cls)

Raise(cls, msg) == [raised |-> TRUE, cls |-> cls, msg |-> msg, value |-> NoDict]

Return(value) == [raised |-> FALSE, cls |-> "", msg |-> "", value |-> value]

\* auth.verify_id_token(token): the provider SDK's verification call.
\* app is the registered default app ("none" when initialize_app never ran),
\* now the wall clock, providerUp whether the provider's public keys can be
\* obtained.  On success the SDK returns the payload with uid set to sub.
verify_id_token(token, app, now, providerUp) ==
    IF app = "none"
    THEN Raise("ValueError", "The default Firebase app does not exist.")
    ELSE IF ~WellFormed(token)
    THEN Raise("InvalidIdTokenError", "Wrong number of segments in token")
    ELSE IF ~providerUp
    THEN Raise("CertificateFetchError", "Could not fetch certificates")
    ELSE IF ~SignatureValid(token)
    THEN Raise("InvalidIdTokenError", "Could not verify token signature")
    ELSE IF now >= Exp(token)
    THEN Raise("ExpiredIdTokenError", "Token expired")
    ELSE Return(("uid" :> Payload(token)["sub"]) @@ Payload(token))

(* --------------------------- HTTP values ------------------------------- *)

ProtectedRoutes == {"/api/protected", "/api/user/profile"}

NoHeader == [scheme |-> "", credentials |-> ""]

\* the Authorization headers a request may carry: none, a non-bearer
\* scheme, or "Bearer <token>"
Headers ==
    {NoHeader, [scheme |-> "Basic", credentials |-> "dXNlcjpwdw=="]}
    \cup {[scheme |-> "Bearer", credentials |-> t] : t \in Tokens}

NoResponse == [status |-> 0, body |-> NoDict]

JSONResponse(status, body) == [status |-> status, body |-> body]

\* FastAPI's rendering of a raised HTTPException
HTTPException(status_code, detail) ==
    [kind |-> "HTTPException", status_code |-> status_code, detail |-> detail,
     value |-> NoDict]

Returned(value) ==
    [kind |-> "return", status_code |-> 0, detail |-> "", value |-> value]

\* an exception no handler catches: the server answers 500
Unhandled(msg) ==
    [kind |-> "unhandled", status_code |-> 500, detail |-> msg, value |-> NoDict]

NotCalled == [kind |-> "none", status_code |-> 0, detail |-> "", value |-> NoDict]

ErrorResponse(outcome) ==
    IF outcome.kind = "HTTPException"
    THEN JSONResponse(outcome.status_code, "detail" :> outcome.detail)
    ELSE JSONResponse(500, "detail" :> "Internal Server Error")

(* ----------------------- backend/auth_utils.py ------------------------- *)

\* security = HTTPBearer(): extracts the bearer credentials or rejects the
\* request.  Releases of FastAPI differ in the status of the rejection:
\* older ones answer 403 (and "Invalid authentication credentials" for a
\* non-bearer scheme), newer ones 401 "Not authenticated" for both.
security(authorization, legacy) ==
    IF authorization.scheme = "" \/ authorization.credentials = ""
    THEN HTTPException(IF legacy THEN 403 ELSE 401, "Not authenticated")
    ELSE IF authorization.scheme # "Bearer"
    THEN HTTPException(IF legacy THEN 403 ELSE 401,
                       IF legacy THEN "Invalid authentication credentials"
                       ELSE "Not authenticated")
    ELSE Returned(authorization)

DetailPrefix == "Invalid authentication credentials: "

\* variant: the handler catches ValueError only
verify_firebase_token_valueerror(credentials, app, now, providerUp) ==
    LET token == credentials.credentials
        decoded_token == verify_id_token(token, app, now, providerUp)
    IN  IF ~decoded_token.raised
        THEN Returned(decoded_token.value)
        ELSE IF IsInstance(decoded_token.cls, "ValueError")
        THEN HTTPException(401, DetailPrefix \o decoded_token.msg)
        ELSE Unhandled(decoded_token.msg)

\* variant: a failed verification is swallowed and an empty claim set returned
verify_firebase_token_swallow(credentials, app, now, providerUp) ==
    LET token == credentials.credentials
        decoded_token == verify_id_token(token, app, now, providerUp)
    IN  IF ~decoded_token.raised
        THEN Returned(decoded_token.value)
        ELSE Returned(NoDict)

\* verify_firebase_token: try verify_id_token, except Exception -> 401
verify_firebase_token(credentials, app, now, providerUp) ==
    LET token == credentials.credentials
        decoded_token == verify_id_token(token, app, now, providerUp)
    IN  IF ~decoded_token.raised
        THEN Returned(decoded_token.value)
        ELSE IF IsInstance(decoded_token.cls, "Exception")
        THEN HTTPException(401, DetailPrefix \o decoded_token.msg)
        ELSE Unhandled(decoded_token.msg)

\* variant: the identifier is read from the user_id key
get_current_user_user_id(token_data) ==
    [uid |-> Get(token_data, "user_id"),
     email |-> Get(token_data, "email"),
     name |-> Get(token_data, "name"),
     picture |-> Get(token_data, "picture")]

\* get_current_user: the identity record built from the decoded claims
get_current_user(token_data) ==
    [uid |-> Get(token_data, "uid"),
     email |-> Get(token_data, "email"),
     name |-> Get(token_data, "name"),
     picture |-> Get(token_data, "picture")]

(* --------------------------- backend/main.py --------------------------- *)

read_root == "message" :> "HealthScan AI Backend API"

health_check == "status" :> "healthy"

protected_route(current_user) ==
    ("message" :> "This is a protected route") @@ ("user" :> current_user)

get_user_profile(current_user) ==
    ("uid" :> current_user["uid"]) @@ ("email" :> current_user["email"])
    @@ ("name" :> current_user["name"]) @@ ("picture" :> current_user["picture"])

(* ------------------------------ state ---------------------------------- *)

\* What a call of verify_id_token observed of its environment: whether the
\* provider's keys were obtainable, read only once the app and the token's
\* form are accepted, and the time, read only when the expiry is examined.
\* What the call did not read is recorded as TRUE and 0.
NoEnv == [called |-> FALSE, now |-> 0, providerUp |-> FALSE]

ReadsProvider(token, app) == app = "default" /\ WellFormed(token)

ReadsClock(token, app, providerUp) ==
    ReadsProvider(token, app) /\ providerUp /\ SignatureValid(token)

Env(token, app, now, providerUp) ==
    [called |-> TRUE,
     now |-> IF ReadsClock(token, app, providerUp) THEN now ELSE 0,
     providerUp |-> providerUp]

VARIABLES
    phase,          \* "import" while auth_utils is being imported, then "serving"
    firebase_app,   \* the SDK's default app: "none" or "default"
    init_calls,     \* how many times firebase_admin.initialize_app ran
    warned,         \* whether the missing-credentials warning was printed
    legacy,         \* whether the installed HTTPBearer rejects with 403
    clock,          \* wall clock
    pc,             \* per request: where its resolution stands
    route,          \* per request: the path requested
    header,         \* per request: its Authorization header
    credentials,    \* per request: outcome of the security dependency
    token_data,     \* per request: outcome of verify_firebase_token
    current_user,   \* per request: {} or {the identity record}
    env,            \* per request: the clock and provider availability
                    \* that its verify_id_token call met
    invoked,        \* per request: the route handler that ran, "" if none
    response        \* per request: the response sent, NoResponse if none yet

vars == <<phase, firebase_app, init_calls, warned, legacy, clock, pc, route,
          header, credentials, env, token_data, current_user, invoked, response>>

process == <<phase, firebase_app, init_calls, warned, legacy>>

Init ==
    /\ phase = "import"
    /\ firebase_app = "none"
    /\ init_calls = 0
    /\ warned = FALSE
    /\ legacy \in BOOLEAN
    /\ clock = 0
    /\ pc = [r \in Requests |-> "idle"]
    /\ route = [r \in Requests |-> ""]
    /\ header = [r \in Requests |-> NoHeader]
    /\ credentials = [r \in Requests |-> NotCalled]
    /\ env = [r \in Requests |-> NoEnv]
    /\ token_data = [r \in Requests |-> NotCalled]
    /\ current_user = [r \in Requests |-> {}]
    /\ invoked = [r \in Requests |-> ""]
    /\ response = [r \in Requests |-> NoResponse]

\* Module import of auth_utils: initialize the SDK when the credential file
\* exists, print a warning otherwise.  A module body runs once per process.
ImportAuthUtils ==
    /\ phase = "import"
    /\ \E exists \in BOOLEAN :
         IF exists
         THEN /\ firebase_app' = "default"
              /\ init_calls' = init_calls + 1
              /\ warned' = warned
         ELSE /\ warned' = TRUE
              /\ UNCHANGED <<firebase_app, init_calls>>
    /\ phase' = "serving"
    /\ UNCHANGED <<legacy, clock, pc, route, header, credentials, env,
                   token_data, current_user, invoked, response>>

\* time passes
Tick ==
    /\ clock < MaxClock
    /\ clock' = clock + 1
    /\ UNCHANGED <<process, pc, route, header, credentials, env, token_data,
                   current_user, invoked, response>>

\* GET / : no dependency, the handler runs at once
Call_read_root(r) ==
    /\ phase = "serving"
    /\ pc[r] = "idle"
    /\ \E h \in Headers : header' = [header EXCEPT ![r] = h]
    /\ route' = [route EXCEPT ![r] = "/"]
    /\ invoked' = [invoked EXCEPT ![r] = "read_root"]
    /\ response' = [response EXCEPT ![r] = JSONResponse(200, read_root)]
    /\ pc' = [pc EXCEPT ![r] = "done"]
    /\ UNCHANGED <<process, clock, credentials, env, token_data, current_user>>

\* variant: /health declares the security dependency
Call_health_check_guarded(r) ==
    /\ phase = "serving"
    /\ pc[r] = "idle"
    /\ \E h \in Headers :
         LET out == security(h, legacy) IN
         /\ header' = [header EXCEPT ![r] = h]
         /\ credentials' = [credentials EXCEPT ![r] = out]
         /\ IF out.kind = "return"
            THEN /\ invoked' = [invoked EXCEPT ![r] = "health_check"]
                 /\ response' = [response EXCEPT ![r] = JSONResponse(200, health_check)]
            ELSE /\ invoked' = invoked
                 /\ response' = [response EXCEPT ![r] = ErrorResponse(out)]
    /\ route' = [route EXCEPT ![r] = "/health"]
    /\ pc' = [pc EXCEPT ![r] = "done"]
    /\ UNCHANGED <<process, clock, env, token_data, current_user>>

\* GET /health : no dependency, the handler runs at once
Call_health_check(r) ==
    /\ phase = "serving"
    /\ pc[r] = "idle"
    /\ \E h \in Headers : header' = [header EXCEPT ![r] = h]
    /\ route' = [route EXCEPT ![r] = "/health"]
    /\ invoked' = [invoked EXCEPT ![r] = "health_check"]
    /\ response' = [response EXCEPT ![r] = JSONResponse(200, health_check)]
    /\ pc' = [pc EXCEPT ![r] = "done"]
    /\ UNCHANGED <<process, clock, credentials, env, token_data, current_user>>

\* variant: a failed verification does not end the request
Call_verify_firebase_token_noshort(r) ==
    /\ phase = "serving"
    /\ pc[r] = "idle"
    /\ \E p \in ProtectedRoutes, h \in Headers :
         LET c == security(h, legacy) IN
         /\ route' = [route EXCEPT ![r] = p]
         /\ header' = [header EXCEPT ![r] = h]
         /\ credentials' = [credentials EXCEPT ![r] = c]
         /\ IF c.kind # "return"
            THEN /\ pc' = [pc EXCEPT ![r] = "done"]
                 /\ response' = [response EXCEPT ![r] = ErrorResponse(c)]
                 /\ UNCHANGED <<env, token_data>>
            ELSE \E providerUp \in IF ReadsProvider(c.value.credentials, firebase_app)
                                   THEN BOOLEAN ELSE {TRUE} :
                   LET out == verify_firebase_token(c.value, firebase_app, clock, providerUp)
                   IN
                   /\ env' = [env EXCEPT ![r] =
                                Env(c.value.credentials, firebase_app, clock, providerUp)]
                   /\ token_data' = [token_data EXCEPT ![r] = out]
                   /\ pc' = [pc EXCEPT ![r] = "get_user"]
                   /\ UNCHANGED response
    /\ UNCHANGED <<process, clock, current_user, invoked>>

\* variant: a token is accepted once; presenting it again is rejected
Call_verify_firebase_token_once(r) ==
    /\ phase = "serving"
    /\ pc[r] = "idle"
    /\ \E p \in ProtectedRoutes, h \in Headers :
         LET c == security(h, legacy) IN
         /\ route' = [route EXCEPT ![r] = p]
         /\ header' = [header EXCEPT ![r] = h]
         /\ credentials' = [credentials EXCEPT ![r] = c]
         /\ IF c.kind # "return"
            THEN /\ pc' = [pc EXCEPT ![r] = "done"]
                 /\ response' = [response EXCEPT ![r] = ErrorResponse(c)]
                 /\ UNCHANGED <<env, token_data>>
            ELSE \E providerUp \in IF ReadsProvider(c.value.credentials, firebase_app)
                                   THEN BOOLEAN ELSE {TRUE} :
                   LET out == IF \E q \in Requests \ {r} :
                                     /\ token_data[q].kind = "return"
                                     /\ credentials[q] = c
                               THEN HTTPException(401, DetailPrefix \o "Token already used")
                               ELSE verify_firebase_token(c.value, firebase_app, clock, providerUp)
                   IN
                   /\ env' = [env EXCEPT ![r] =
                                Env(c.value.credentials, firebase_app, clock, providerUp)]
                   /\ token_data' = [token_data EXCEPT ![r] = out]
                   /\ IF out.kind = "return"
                      THEN /\ pc' = [pc EXCEPT ![r] = "get_user"]
                           /\ UNCHANGED response
                      ELSE /\ pc' = [pc EXCEPT ![r] = "done"]
                           /\ response' = [response EXCEPT ![r] = ErrorResponse(out)]
    /\ UNCHANGED <<process, clock, current_user, invoked>>

\* variant: the SDK is initialized on demand by the first verification
Call_verify_firebase_token_lazy(r) ==
    /\ phase = "serving"
    /\ pc[r] = "idle"
    /\ \E p \in ProtectedRoutes, h \in Headers :
         LET c == security(h, legacy) IN
         /\ route' = [route EXCEPT ![r] = p]
         /\ header' = [header EXCEPT ![r] = h]
         /\ credentials' = [credentials EXCEPT ![r] = c]
         /\ IF c.kind # "return"
            THEN /\ pc' = [pc EXCEPT ![r] = "done"]
                 /\ response' = [response EXCEPT ![r] = ErrorResponse(c)]
                 /\ UNCHANGED <<env, token_data>>
            ELSE \E providerUp \in IF ReadsProvider(c.value.credentials, "default")
                                   THEN BOOLEAN ELSE {TRUE} :
                   LET out == verify_firebase_token(c.value, "default", clock, providerUp)
                   IN
                   /\ env' = [env EXCEPT ![r] =
                                Env(c.value.credentials, "default", clock, providerUp)]
                   /\ token_data' = [token_data EXCEPT ![r] = out]
                   /\ IF out.kind = "return"
                      THEN /\ pc' = [pc EXCEPT ![r] = "get_user"]
                           /\ UNCHANGED response
                      ELSE /\ pc' = [pc EXCEPT ![r] = "done"]
                           /\ response' = [response EXCEPT ![r] = ErrorResponse(out)]
    /\ firebase_app' = "default"
    /\ init_calls' = init_calls + 1
    /\ UNCHANGED <<phase, warned, legacy, clock, current_user, invoked>>

\* A request to a protected route arrives and Depends(verify_firebase_token)
\* is resolved: first its sub-dependency security, then, when that returned
\* credentials, the function body.  Both are coroutines that never suspend,
\* so the event loop runs them as one step.
Call_verify_firebase_token(r) ==
    /\ phase = "serving"
    /\ pc[r] = "idle"
    /\ \E p \in ProtectedRoutes, h \in Headers :
         LET c == security(h, legacy) IN
         /\ route' = [route EXCEPT ![r] = p]
         /\ header' = [header EXCEPT ![r] = h]
         /\ credentials' = [credentials EXCEPT ![r] = c]
         /\ IF c.kind # "return"
            THEN /\ pc' = [pc EXCEPT ![r] = "done"]
                 /\ response' = [response EXCEPT ![r] = ErrorResponse(c)]
                 /\ UNCHANGED <<env, token_data>>
            ELSE \E providerUp \in IF ReadsProvider(c.value.credentials, firebase_app)
                                   THEN BOOLEAN ELSE {TRUE} :
                   LET out == verify_firebase_token(c.value, firebase_app, clock, providerUp)
                   IN
                   /\ env' = [env EXCEPT ![r] =
                                Env(c.value.credentials, firebase_app, clock, providerUp)]
                   /\ token_data' = [token_data EXCEPT ![r] = out]
                   /\ IF out.kind = "return"
                      THEN /\ pc' = [pc EXCEPT ![r] = "get_user"]
                           /\ UNCHANGED response
                      ELSE /\ pc' = [pc EXCEPT ![r] = "done"]
                           /\ response' = [response EXCEPT ![r] = ErrorResponse(out)]
    /\ UNCHANGED <<process, clock, current_user, invoked>>

\* variant: the decoded claims are kept in one module-level variable, so a
\* request reads the claims of whichever request verified most recently
Call_get_current_user_shared(r) ==
    /\ pc[r] = "get_user"
    /\ \E q \in Requests :
         /\ token_data[q].kind = "return"
         /\ \A o \in Requests :
               token_data[o].kind = "return" => env[o].now <= env[q].now
         /\ current_user' =
              [current_user EXCEPT ![r] = {get_current_user(token_data[q].value)}]
    /\ pc' = [pc EXCEPT ![r] = "handler"]
    /\ UNCHANGED <<process, clock, route, header, credentials, env,
                   token_data, invoked, response>>

\* Depends(get_current_user)
Call_get_current_user(r) ==
    /\ pc[r] = "get_user"
    /\ current_user' =
         [current_user EXCEPT ![r] = {get_current_user(token_data[r].value)}]
    /\ pc' = [pc EXCEPT ![r] = "handler"]
    /\ UNCHANGED <<process, clock, route, header, credentials, env,
                   token_data, invoked, response>>

\* the identity record handed to request r's handler
UserOf(r) == CHOOSE u \in current_user[r] : TRUE

\* GET /api/protected
Call_protected_route(r) ==
    /\ pc[r] = "handler"
    /\ route[r] = "/api/protected"
    /\ invoked' = [invoked EXCEPT ![r] = "protected_route"]
    /\ response' = [response EXCEPT ![r] =
                       JSONResponse(200, protected_route(UserOf(r)))]
    /\ pc' = [pc EXCEPT ![r] = "done"]
    /\ UNCHANGED <<process, clock, route, header, credentials, env,
                   token_data, current_user>>

\* GET /api/user/profile
Call_get_user_profile(r) ==
    /\ pc[r] = "handler"
    /\ route[r] = "/api/user/profile"
    /\ invoked' = [invoked EXCEPT ![r] = "get_user_profile"]
    /\ response' = [response EXCEPT ![r] =
                       JSONResponse(200, get_user_profile(UserOf(r)))]
    /\ pc' = [pc EXCEPT ![r] = "done"]
    /\ UNCHANGED <<process, clock, route, header, credentials, env,
                   token_data, current_user>>

Next ==
    \/ ImportAuthUtils
    \/ Tick
    \/ \E r \in Requests : Call_read_root(r)
    \/ \E r \in Requests : Call_health_check(r)
    \/ \E r \in Requests : Call_verify_firebase_token(r)
    \/ \E r \in Requests : Call_get_current_user(r)
    \/ \E r \in Requests : Call_protected_route(r)
    \/ \E r \in Requests : Call_get_user_profile(r)

Spec == Init /\ [][Next]_vars

(* ------------------------ verified properties -------------------------- *)

TokenOf(r) == header[r].credentials

\* what the provider's verification call of request r did
Provider(r) ==
    verify_id_token(TokenOf(r), firebase_app, env[r].now, env[r].providerUp)

\* the Token Verifier was invoked for r and the provider accepted r's token
ProviderVerified(r) == env[r].called /\ ~Provider(r).raised

ProviderFailed(r) == env[r].called /\ Provider(r).raised

Done(r) == pc[r] = "done"

\* the identity record a 200 response of a protected route carries
IdentityIn(r) ==
    IF route[r] = "/api/protected" THEN response[r].body["user"]
    ELSE response[r].body

\* C1: a protected handler runs only for a request whose own verification
\* succeeded; a request whose verification failed is finished with status
\* 401 and no handler invoked.
C1_HandlerOnlyAfterVerification ==
    \A r \in Requests :
      /\ invoked[r] \in {"protected_route", "get_user_profile"}
            => route[r] \in ProtectedRoutes /\ ProviderVerified(r)
      /\ ProviderFailed(r)
            => Done(r) /\ response[r].status = 401 /\ invoked[r] = ""

C1_Witness ==
    \E r1, r2 \in Requests :
      /\ invoked[r1] = "protected_route"
      /\ ProviderFailed(r2) /\ Done(r2)

\* C2: every failure of the provider's verification call, whatever its
\* cause, ends the request with status 401 and detail "Invalid
\* authentication credentials: " followed by the failure's description.
C2_AnyFailureIs401 ==
    \A r \in Requests :
      ProviderFailed(r) =>
        /\ token_data[r] = HTTPException(401, DetailPrefix \o Provider(r).msg)
        /\ response[r] =
             JSONResponse(401, "detail" :> (DetailPrefix \o Provider(r).msg))

C2_Witness ==
    \E r1, r2 \in Requests :
      /\ ProviderFailed(r1) /\ Provider(r1).cls = "ExpiredIdTokenError"
      /\ ProviderFailed(r2) /\ Provider(r2).cls = "CertificateFetchError"
      /\ Done(r1) /\ Done(r2)

\* the failure descriptions a 401 detail may embed
Reasons ==
    {verify_id_token(t, a, n, u).msg :
        t \in Tokens, a \in {"none", "default"}, n \in 0..MaxClock, u \in BOOLEAN}
    \cup {"Not authenticated", "Invalid authentication credentials"}

\* C3: a protected route answers a request without a "Bearer <token>"
\* header with status 401 and a detail of the form "Invalid authentication
\* credentials: <reason>".
C3_MissingHeaderIsAuthError ==
    \A r \in Requests :
      (Done(r) /\ route[r] \in ProtectedRoutes /\ header[r].scheme # "Bearer") =>
        /\ response[r].status = 401
        /\ response[r].body["detail"] \in {DetailPrefix \o m : m \in Reasons}

\* C4: a request whose token passes provider verification is answered 200
\* with an identity whose uid is the token's subject claim and whose email,
\* name and picture are the token's claims, None when absent.
C4_VerifiedTokenGivesIdentity ==
    \A r \in Requests :
      (Done(r) /\ ProviderVerified(r)) =>
        /\ response[r].status = 200
        /\ IdentityIn(r)["uid"] = Payload(TokenOf(r))["sub"]
        /\ \A k \in {"email", "name", "picture"} :
              IdentityIn(r)[k] = Get(Payload(TokenOf(r)), k)

C4_Witness ==
    \E r1, r2 \in Requests :
      /\ Done(r1) /\ ProviderVerified(r1) /\ TokenOf(r1) = "alice"
      /\ route[r1] = "/api/protected"
      /\ Done(r2) /\ ProviderVerified(r2) /\ TokenOf(r2) = "bob"
      /\ route[r2] = "/api/user/profile"

\* C5: when the credential file is absent the process serves, the backend
\* stays uninitialized, every protected request is answered 401 and / and
\* /health answer their static payloads.
C5_AbsentCredentialAll401 ==
    warned =>
      /\ phase = "serving" /\ firebase_app = "none"
      /\ \A r \in Requests :
            Done(r) =>
              /\ route[r] \in ProtectedRoutes => response[r].status = 401
              /\ route[r] = "/" => response[r] = JSONResponse(200, read_root)
              /\ route[r] = "/health" => response[r] = JSONResponse(200, health_check)

\* C6: / and /health answer their static payload whatever the header and
\* the backend state, and none of the authentication steps runs for them.
C6_OpenRoutesNeverAuthenticate ==
    \A r \in Requests :
      route[r] \in {"/", "/health"} =>
        /\ Done(r)
        /\ response[r] = JSONResponse(200, IF route[r] = "/" THEN read_root
                                           ELSE health_check)
        /\ credentials[r] = NotCalled
        /\ env[r] = NoEnv
        /\ token_data[r] = NotCalled
        /\ current_user[r] = {}

C6_Witness ==
    \E r1, r2 \in Requests :
      /\ route[r1] = "/" /\ header[r1].credentials = "garbage"
      /\ route[r2] = "/health" /\ header[r2] = NoHeader
      /\ firebase_app = "none"

\* C7: an identity record exists for a request only if the provider
\* accepted that request's own token, and it is the record of the claims
\* the provider returned for that token.
C7_IdentityOnlyFromOwnVerifiedToken ==
    \A r \in Requests :
      current_user[r] # {} =>
        /\ ProviderVerified(r)
        /\ token_data[r] = Returned(Provider(r).value)
        /\ current_user[r] = {get_current_user(Provider(r).value)}

C7_Witness ==
    \E r1, r2 \in Requests :
      /\ current_user[r1] # {}
      /\ ProviderFailed(r2) /\ current_user[r2] = {}
      /\ TokenOf(r1) # TokenOf(r2)

\* C8: two requests that present the same token, each verified while the
\* token is valid, get the same claims and the same identity record.
C8_SameTokenSameIdentity ==
    \A r1, r2 \in Requests :
      (ProviderVerified(r1) /\ ProviderVerified(r2) /\ TokenOf(r1) = TokenOf(r2)) =>
        /\ token_data[r1].kind = "return"
        /\ token_data[r1] = token_data[r2]
        /\ (current_user[r1] # {} /\ current_user[r2] # {})
              => current_user[r1] = current_user[r2]

C8_Witness ==
    \E r1, r2 \in Requests :
      /\ r1 # r2
      /\ TokenOf(r1) = TokenOf(r2)
      /\ current_user[r1] # {} /\ current_user[r2] # {}
      /\ env[r1].now # env[r2].now

Alone(r) ==
    IF route[r] = "/" THEN JSONResponse(200, read_root)
    ELSE IF route[r] = "/health" THEN JSONResponse(200, health_check)
    ELSE LET c == security(header[r], legacy) IN
         IF c.kind # "return" THEN ErrorResponse(c)
         ELSE LET t == verify_firebase_token(c.value, firebase_app, env[r].now,
                                             env[r].providerUp) IN
              IF t.kind # "return" THEN ErrorResponse(t)
              ELSE LET u == get_current_user(t.value) IN
                   JSONResponse(200, IF route[r] = "/api/protected"
                                     THEN protected_route(u)
                                     ELSE get_user_profile(u))

\* C10: whatever the interleaving, a finished request's response is the
\* one it gets when handled alone.
C10_ResponseAsIfAlone ==
    \A r \in Requests : Done(r) => response[r] = Alone(r)

\* a request verified later has finished while one verified earlier, with
\* another token, is still in flight
C10_Witness ==
    \E r1, r2 \in Requests :
      /\ Done(r1) /\ response[r1].status = 200
      /\ pc[r2] = "handler"
      /\ TokenOf(r1) # TokenOf(r2)
      /\ env[r2].now < env[r1].now

====
